---- MODULE Spec2Model ----
(***************************************************************************)
(* FederatedTaskManager: the ledger contract of the federated-learning     *)
(* task registry (contracts/FederatedTaskManager.sol, lines 1-83).         *)
(* Every external function is one atomic transaction: the EVM executes     *)
(* transactions one after another and a failed require reverts the whole   *)
(* call, so concurrent callers are the interleavings of these actions.     *)
(* The module also holds the earlier reward registry of the same file      *)
(* (lines 85-147, RegistrySpec), the federated averaging of the Python     *)
(* library (AverageSpec) and the aggregation engine that finalizes a task  *)
(* through submitFinalModel (AggregationSpec), the dashboard page that     *)
(* reads the contract when it is mounted (DashboardSpec) and the ether the *)
(* contract holds (PayableSpec).                                           *)
(***************************************************************************)
EXTENDS Integers, Sequences, FiniteSets, TLC

\* ---------------------------------------------------------------- bounds
\* at most this many events are emitted (successful calls) in a behaviour
MaxEvents == 3
\* block.timestamp ranges over 1..MaxTime
MaxTime == 2

\* ------------------------------------------------------------ input sets
\* address(0), the default value of an unset address
ZeroAddress == 0
\* the accounts that send transactions (msg.sender is never address(0))
Callers == {1, 2}
\* the task identifiers callers choose
TaskIds == {"t1", "t2"}
\* the schema content identifiers callers choose
SchemaHashes == {"s1", "s2"}
\* (hash, metadata, accuracy) arguments of submitModel
SubmitArgs ==
    { [hash |-> "QmA", meta |-> "r1", acc |-> 9000],
      [hash |-> "QmB", meta |-> "r2", acc |-> 8000] }
\* (hash, metadata, accuracy) arguments of submitFinalModel; a string
\* argument may be empty
FinalArgs ==
    SubmitArgs \cup { [hash |-> "", meta |-> "r0", acc |-> 7000] }

\* ------------------------------------------------------- revert strings
Ok == "ok"
TaskAlreadyExists == "Task already exists"
TaskNotFound == "Task not found"
Unauthorized == "Only task creator can submit final model"
AlreadyFinalized == "Final model already submitted"

\* error kinds the specification names that the contract has no revert for
TaskSealed == "TaskSealed"
QuorumNotMet == "QuorumNotMet"
IntegrityCheckFailed == "IntegrityCheckFailed"

\* aggregate_results(task_id, min_nodes=1, ...): the default quorum
MinNodes == 1

\* --------------------------------------------------------- content store
\* get(contentId) -> bytes | NotFound.  The blobs kept under "QmA" and
\* "QmE" are the ones that were put; the blob kept under "QmB" was altered
\* after the put; nothing else resolves.
NotFound == 0
StoreGet(contentId) ==
    CASE contentId = "QmA" -> 1
      [] contentId = "QmB" -> 3
      [] contentId = "QmE" -> 5
      [] OTHER -> NotFound

\* the content identifier is a deterministic hash of the bytes
CidOf(bytes) ==
    CASE bytes = 1 -> "QmA"
      [] bytes = 2 -> "QmB"
      [] bytes = 5 -> "QmE"
      [] OTHER -> "QmC"

\* download-then-verify: the identifier resolves and the recomputed hash
\* of the bytes equals it
IntegrityVerified(contentId) ==
    /\ StoreGet(contentId) # NotFound
    /\ CidOf(StoreGet(contentId)) = contentId

\* ----------------------------------------------------------------- state
VARIABLES
    tasks,      \* mapping(string => Task)
    taskIds,    \* string[] taskIds
    events,     \* the event log of the contract, in emission order
    now,        \* block.timestamp of the latest block
    last        \* the latest transaction and its outcome

vars == <<tasks, taskIds, events, now, last>>

\* The reward registry: the contract of the same name at lines 85-147 of
\* FederatedTaskManager.sol, which keeps a reward per task and has getTask.
VARIABLES
    rTasks,     \* mapping(string => Task) public tasks
    rTaskIds,   \* string[] taskIds
    rEvents,    \* the TaskCreated events of the registry
    rBalance,   \* the value the registry holds
    rLast       \* the latest call on the registry, its outcome and its return

regVars == <<rTasks, rTaskIds, rEvents, rBalance, rLast>>

\* The off-chain aggregator (lib/, documented in lib/README.md).
VARIABLES
    aggLog,       \* per task, the error of its latest failed aggregation
    weight_list,  \* the argument of federated_average
    averaged      \* the value federated_average returned

aggVars == <<aggLog>>
avgVars == <<weight_list, averaged>>

\* The ether held by the contract of lines 1-83.
VARIABLES
    balance       \* address(this).balance

balVars == <<balance>>

\* The dashboard page (DashboardPage): its React state and its mount effect.
VARIABLES
    sessionList,       \* useState<SessionListItem[]>
    detailedSessions,  \* useState<SessionDetailData[]>
    fetchPc            \* the mount effect: "pending" until it has run

dashVars == <<sessionList, detailedSessions, fetchPc>>

allVars == <<vars, regVars, aggVars, avgVars, balVars, dashVars>>

\* the value every key of the mapping has before it is written
ZeroTask ==
    [ taskId |-> "", schemaHash |-> "", creator |-> ZeroAddress,
      timestamp |-> 0, submissions |-> <<>>,
      finalModelHash |-> "", finalModelMetadata |-> "", finalAccuracy |-> 0 ]

Submission(modelHash, modelMetadata, submitter, timestamp, accuracy) ==
    [ modelHash |-> modelHash, modelMetadata |-> modelMetadata,
      submitter |-> submitter, timestamp |-> timestamp,
      accuracy |-> accuracy ]

TaskCreated(taskId, schemaHash, creator) ==
    [ name |-> "TaskCreated", taskId |-> taskId, hash |-> schemaHash,
      who |-> creator, accuracy |-> 0, metadata |-> "" ]

ModelSubmitted(taskId, modelHash, submitter, accuracy, modelMetadata) ==
    [ name |-> "ModelSubmitted", taskId |-> taskId, hash |-> modelHash,
      who |-> submitter, accuracy |-> accuracy, metadata |-> modelMetadata ]

FinalModelSubmitted(taskId, finalModelHash, creator, accuracy, finalModelMetadata) ==
    [ name |-> "FinalModelSubmitted", taskId |-> taskId,
      hash |-> finalModelHash, who |-> creator, accuracy |-> accuracy,
      metadata |-> finalModelMetadata ]

\* the receipt of a transaction: which function, on which task, by whom,
\* and "ok" or the revert string
Receipt(op, taskId, sender, result) ==
    [ op |-> op, taskId |-> taskId, caller |-> sender, result |-> result ]

\* a reverted call changes nothing in storage and emits nothing
Revert(op, taskId, sender, reason) ==
    /\ last' = Receipt(op, taskId, sender, reason)
    /\ UNCHANGED <<tasks, taskIds, events>>

\* the value every key of the registry's mapping has before it is written
ZeroRewardTask ==
    [ schemaHash |-> "", creator |-> ZeroAddress, reward |-> 0, exists |-> FALSE ]

\* the outcome of a call on the registry, with the values it returned
RegReceipt(op, taskId, sender, result, ret) ==
    [ op |-> op, taskId |-> taskId, caller |-> sender, result |-> result,
      ret |-> ret ]

LedgerInit ==
    /\ tasks = [id \in TaskIds |-> ZeroTask]
    /\ taskIds = <<>>
    /\ events = <<>>
    /\ now = 1
    /\ last = Receipt("none", "", ZeroAddress, Ok)

RegistryInit ==
    /\ rTasks = [id \in TaskIds |-> ZeroRewardTask]
    /\ rTaskIds = <<>>
    /\ rEvents = <<>>
    /\ rBalance = 0
    /\ rLast = RegReceipt("none", "", ZeroAddress, Ok, <<>>)

AggregatorInit ==
    /\ aggLog = [id \in TaskIds |-> ""]

AverageInit ==
    /\ weight_list = <<>>
    /\ averaged = [error |-> "pending", weights |-> <<>>]

BalanceInit ==
    /\ balance = 0

DashboardInit ==
    /\ sessionList = <<>>
    /\ detailedSessions = <<>>
    /\ fetchPc = "pending"

Init ==
    /\ LedgerInit
    /\ RegistryInit
    /\ AggregatorInit
    /\ AverageInit
    /\ BalanceInit
    /\ DashboardInit

\* ------------------------------------------------------------ operations
\* createTask that rejects a duplicate only when the same account repeats it
createTaskSameCallerOnly(sender, taskId, schemaHash) ==
    IF tasks[taskId].creator = sender
    THEN Revert("createTask", taskId, sender, TaskAlreadyExists)
    ELSE /\ tasks' = [tasks EXCEPT ![taskId] =
                        [@ EXCEPT !.taskId = taskId,
                                  !.schemaHash = schemaHash,
                                  !.creator = sender,
                                  !.timestamp = now']]
         /\ taskIds' = Append(taskIds, taskId)
         /\ events' = Append(events, TaskCreated(taskId, schemaHash, sender))
         /\ last' = Receipt("createTask", taskId, sender, Ok)

\* createTask that reports a duplicate only after it has overwritten the task
createTaskLateCheck(sender, taskId, schemaHash) ==
    /\ tasks' = [tasks EXCEPT ![taskId] =
                    [@ EXCEPT !.taskId = taskId,
                              !.schemaHash = schemaHash,
                              !.creator = sender,
                              !.timestamp = now']]
    /\ IF tasks[taskId].creator # ZeroAddress
       THEN /\ last' = Receipt("createTask", taskId, sender, TaskAlreadyExists)
            /\ UNCHANGED <<taskIds, events>>
       ELSE /\ taskIds' = Append(taskIds, taskId)
            /\ events' = Append(events, TaskCreated(taskId, schemaHash, sender))
            /\ last' = Receipt("createTask", taskId, sender, Ok)

\* createTask that stores the taskId where the schemaHash belongs
createTaskSwappedFields(sender, taskId, schemaHash) ==
    IF tasks[taskId].creator # ZeroAddress
    THEN Revert("createTask", taskId, sender, TaskAlreadyExists)
    ELSE /\ tasks' = [tasks EXCEPT ![taskId] =
                        [@ EXCEPT !.taskId = taskId,
                                  !.schemaHash = taskId,
                                  !.creator = sender,
                                  !.timestamp = now']]
         /\ taskIds' = Append(taskIds, taskId)
         /\ events' = Append(events, TaskCreated(taskId, schemaHash, sender))
         /\ last' = Receipt("createTask", taskId, sender, Ok)

createTask(sender, taskId, schemaHash) ==
    IF tasks[taskId].creator # ZeroAddress
    THEN Revert("createTask", taskId, sender, TaskAlreadyExists)
    ELSE /\ tasks' = [tasks EXCEPT ![taskId] =
                        [@ EXCEPT !.taskId = taskId,
                                  !.schemaHash = schemaHash,
                                  !.creator = sender,
                                  !.timestamp = now']]
         /\ taskIds' = Append(taskIds, taskId)
         /\ events' = Append(events, TaskCreated(taskId, schemaHash, sender))
         /\ last' = Receipt("createTask", taskId, sender, Ok)

\* submitModel without the existence check
submitModelNoExistenceCheck(sender, taskId, modelHash, modelMetadata, accuracy) ==
    /\ tasks' = [tasks EXCEPT ![taskId].submissions =
                    Append(@, Submission(modelHash, modelMetadata,
                                         sender, now', accuracy))]
    /\ events' = Append(events, ModelSubmitted(taskId, modelHash, sender,
                                               accuracy, modelMetadata))
    /\ last' = Receipt("submitModel", taskId, sender, Ok)
    /\ UNCHANGED taskIds

\* submitModel that replaces the sender's earlier submission, if any
submitModelOverwriteSameNode(sender, taskId, modelHash, modelMetadata, accuracy) ==
    IF tasks[taskId].creator = ZeroAddress
    THEN Revert("submitModel", taskId, sender, TaskNotFound)
    ELSE LET subs == tasks[taskId].submissions
             new == Submission(modelHash, modelMetadata, sender, now', accuracy)
             mine == { i \in 1..Len(subs) : subs[i].submitter = sender }
         IN  /\ tasks' = [tasks EXCEPT ![taskId].submissions =
                            IF mine = {}
                            THEN Append(subs, new)
                            ELSE [i \in 1..Len(subs) |->
                                    IF i \in mine THEN new ELSE subs[i]]]
             /\ events' = Append(events, ModelSubmitted(taskId, modelHash,
                                            sender, accuracy, modelMetadata))
             /\ last' = Receipt("submitModel", taskId, sender, Ok)
             /\ UNCHANGED taskIds

\* submitModel that puts the new submission in front of the earlier ones
submitModelPrepend(sender, taskId, modelHash, modelMetadata, accuracy) ==
    IF tasks[taskId].creator = ZeroAddress
    THEN Revert("submitModel", taskId, sender, TaskNotFound)
    ELSE /\ tasks' = [tasks EXCEPT ![taskId].submissions =
                        <<Submission(modelHash, modelMetadata,
                                     sender, now', accuracy)>> \o @]
         /\ events' = Append(events, ModelSubmitted(taskId, modelHash, sender,
                                                    accuracy, modelMetadata))
         /\ last' = Receipt("submitModel", taskId, sender, Ok)
         /\ UNCHANGED taskIds

\* submitModel that records the task's creator as the submitter
submitModelRecordsCreator(sender, taskId, modelHash, modelMetadata, accuracy) ==
    IF tasks[taskId].creator = ZeroAddress
    THEN Revert("submitModel", taskId, sender, TaskNotFound)
    ELSE /\ tasks' = [tasks EXCEPT ![taskId].submissions =
                        Append(@, Submission(modelHash, modelMetadata,
                                     tasks[taskId].creator, now', accuracy))]
         /\ events' = Append(events, ModelSubmitted(taskId, modelHash,
                           tasks[taskId].creator, accuracy, modelMetadata))
         /\ last' = Receipt("submitModel", taskId, sender, Ok)
         /\ UNCHANGED taskIds

\* submitModel that also refreshes the task's timestamp
submitModelTouchesTimestamp(sender, taskId, modelHash, modelMetadata, accuracy) ==
    IF tasks[taskId].creator = ZeroAddress
    THEN Revert("submitModel", taskId, sender, TaskNotFound)
    ELSE /\ tasks' = [tasks EXCEPT ![taskId] =
                        [@ EXCEPT !.timestamp = now',
                                  !.submissions =
                                     Append(@, Submission(modelHash, modelMetadata,
                                                          sender, now', accuracy))]]
         /\ events' = Append(events, ModelSubmitted(taskId, modelHash, sender,
                                                    accuracy, modelMetadata))
         /\ last' = Receipt("submitModel", taskId, sender, Ok)
         /\ UNCHANGED taskIds

submitModel(sender, taskId, modelHash, modelMetadata, accuracy) ==
    IF tasks[taskId].creator = ZeroAddress
    THEN Revert("submitModel", taskId, sender, TaskNotFound)
    ELSE /\ tasks' = [tasks EXCEPT ![taskId].submissions =
                        Append(@, Submission(modelHash, modelMetadata,
                                             sender, now', accuracy))]
         /\ events' = Append(events, ModelSubmitted(taskId, modelHash, sender,
                                                    accuracy, modelMetadata))
         /\ last' = Receipt("submitModel", taskId, sender, Ok)
         /\ UNCHANGED taskIds

\* submitFinalModel without the creator check
submitFinalModelAnySender(sender, taskId, finalModelHash, finalModelMetadata, accuracy) ==
    IF tasks[taskId].creator = ZeroAddress
    THEN Revert("submitFinalModel", taskId, sender, TaskNotFound)
    ELSE IF tasks[taskId].finalModelHash # ""
    THEN Revert("submitFinalModel", taskId, sender, AlreadyFinalized)
    ELSE /\ tasks' = [tasks EXCEPT ![taskId] =
                        [@ EXCEPT !.finalModelHash = finalModelHash,
                                  !.finalModelMetadata = finalModelMetadata,
                                  !.finalAccuracy = accuracy]]
         /\ events' = Append(events, FinalModelSubmitted(taskId, finalModelHash,
                                        sender, accuracy, finalModelMetadata))
         /\ last' = Receipt("submitFinalModel", taskId, sender, Ok)
         /\ UNCHANGED taskIds

\* submitFinalModel that looks for an earlier final model before it checks
\* the sender
submitFinalModelFinalizedFirst(sender, taskId, finalModelHash, finalModelMetadata, accuracy) ==
    IF tasks[taskId].creator = ZeroAddress
    THEN Revert("submitFinalModel", taskId, sender, TaskNotFound)
    ELSE IF tasks[taskId].finalModelHash # ""
    THEN Revert("submitFinalModel", taskId, sender, AlreadyFinalized)
    ELSE IF sender # tasks[taskId].creator
    THEN Revert("submitFinalModel", taskId, sender, Unauthorized)
    ELSE /\ tasks' = [tasks EXCEPT ![taskId] =
                        [@ EXCEPT !.finalModelHash = finalModelHash,
                                  !.finalModelMetadata = finalModelMetadata,
                                  !.finalAccuracy = accuracy]]
         /\ events' = Append(events, FinalModelSubmitted(taskId, finalModelHash,
                                        sender, accuracy, finalModelMetadata))
         /\ last' = Receipt("submitFinalModel", taskId, sender, Ok)
         /\ UNCHANGED taskIds

\* submitFinalModel that writes the final model before it checks the sender
\* and returns the error without reverting
submitFinalModelNoRollback(sender, taskId, finalModelHash, finalModelMetadata, accuracy) ==
    IF tasks[taskId].creator = ZeroAddress
    THEN Revert("submitFinalModel", taskId, sender, TaskNotFound)
    ELSE IF tasks[taskId].finalModelHash # ""
    THEN Revert("submitFinalModel", taskId, sender, AlreadyFinalized)
    ELSE /\ tasks' = [tasks EXCEPT ![taskId] =
                        [@ EXCEPT !.finalModelHash = finalModelHash,
                                  !.finalModelMetadata = finalModelMetadata,
                                  !.finalAccuracy = accuracy]]
         /\ UNCHANGED taskIds
         /\ IF sender # tasks[taskId].creator
            THEN /\ last' = Receipt("submitFinalModel", taskId, sender, Unauthorized)
                 /\ UNCHANGED events
            ELSE /\ events' = Append(events, FinalModelSubmitted(taskId,
                                finalModelHash, sender, accuracy, finalModelMetadata))
                 /\ last' = Receipt("submitFinalModel", taskId, sender, Ok)

submitFinalModel(sender, taskId, finalModelHash, finalModelMetadata, accuracy) ==
    IF tasks[taskId].creator = ZeroAddress
    THEN Revert("submitFinalModel", taskId, sender, TaskNotFound)
    ELSE IF sender # tasks[taskId].creator
    THEN Revert("submitFinalModel", taskId, sender, Unauthorized)
    ELSE IF tasks[taskId].finalModelHash # ""
    THEN Revert("submitFinalModel", taskId, sender, AlreadyFinalized)
    ELSE /\ tasks' = [tasks EXCEPT ![taskId] =
                        [@ EXCEPT !.finalModelHash = finalModelHash,
                                  !.finalModelMetadata = finalModelMetadata,
                                  !.finalAccuracy = accuracy]]
         /\ events' = Append(events, FinalModelSubmitted(taskId, finalModelHash,
                                        sender, accuracy, finalModelMetadata))
         /\ last' = Receipt("submitFinalModel", taskId, sender, Ok)
         /\ UNCHANGED taskIds

\* getTasks whose loop stops one entry early
getTasksSkipLast == [i \in 1..(Len(taskIds) - 1) |-> tasks[taskIds[i]]]

\* getTasks(): the stored tasks in the order of taskIds
getTasks == [i \in 1..Len(taskIds) |-> tasks[taskIds[i]]]

\* ----------------------------------------------------------- transactions
\* every transaction is mined in a block whose timestamp is not earlier
\* than the previous block's
Block == now' \in { t \in now..(now + 1) : t <= MaxTime }

CreateTaskTx ==
    /\ Len(events) < MaxEvents
    /\ Block
    /\ \E sender \in Callers, taskId \in TaskIds, schemaHash \in SchemaHashes :
          createTask(sender, taskId, schemaHash)
    /\ UNCHANGED <<regVars, aggVars, avgVars, balVars, dashVars>>

SubmitModelTx ==
    /\ Len(events) < MaxEvents
    /\ Block
    /\ \E sender \in Callers, taskId \in TaskIds, a \in SubmitArgs :
          submitModel(sender, taskId, a.hash, a.meta, a.acc)
    /\ UNCHANGED <<regVars, aggVars, avgVars, balVars, dashVars>>

SubmitFinalModelTx ==
    /\ Len(events) < MaxEvents
    /\ Block
    /\ \E sender \in Callers, taskId \in TaskIds, a \in FinalArgs :
          submitFinalModel(sender, taskId, a.hash, a.meta, a.acc)
    /\ UNCHANGED <<regVars, aggVars, avgVars, balVars, dashVars>>

Next == CreateTaskTx \/ SubmitModelTx \/ SubmitFinalModelTx

Spec == Init /\ [][Next]_allVars

\* ------------------------------------------------------ reward registry
\* the amounts a caller sends or promises
Amounts == {0, 1}

RewardMismatch == "Reward mismatch with msg.value"

RewardTaskCreated(taskId, schemaHash, creator, reward) ==
    [ name |-> "TaskCreated", taskId |-> taskId, schemaHash |-> schemaHash,
      creator |-> creator, reward |-> reward ]

\* a reverted call on the registry returns the value sent and writes nothing
RegRevert(op, taskId, sender, reason) ==
    /\ rLast' = RegReceipt(op, taskId, sender, reason, <<>>)
    /\ UNCHANGED <<rTasks, rTaskIds, rEvents, rBalance>>

\* createTask(taskId, schemaHash, reward) payable, lines 101-115
createTaskWithReward(sender, value, taskId, schemaHash, reward) ==
    IF rTasks[taskId].exists
    THEN RegRevert("createTask", taskId, sender, TaskAlreadyExists)
    ELSE IF value # reward
    THEN RegRevert("createTask", taskId, sender, RewardMismatch)
    ELSE /\ rTasks' = [rTasks EXCEPT ![taskId] =
                          [ schemaHash |-> schemaHash, creator |-> sender,
                            reward |-> reward, exists |-> TRUE ]]
         /\ rTaskIds' = Append(rTaskIds, taskId)
         /\ rBalance' = rBalance + value
         /\ rEvents' = Append(rEvents,
                          RewardTaskCreated(taskId, schemaHash, sender, reward))
         /\ rLast' = RegReceipt("createTask", taskId, sender, Ok, <<>>)

\* getTask that returns the stored fields without the existence check
getTaskNoExistenceCheck(sender, taskId) ==
    /\ rLast' = RegReceipt("getTask", taskId, sender, Ok,
                    <<rTasks[taskId].schemaHash, rTasks[taskId].creator,
                      rTasks[taskId].reward>>)
    /\ UNCHANGED <<rTasks, rTaskIds, rEvents, rBalance>>

\* getTask(taskId) view, lines 117-121
getTask(sender, taskId) ==
    IF ~rTasks[taskId].exists
    THEN RegRevert("getTask", taskId, sender, TaskNotFound)
    ELSE /\ rLast' = RegReceipt("getTask", taskId, sender, Ok,
                         <<rTasks[taskId].schemaHash, rTasks[taskId].creator,
                           rTasks[taskId].reward>>)
         /\ UNCHANGED <<rTasks, rTaskIds, rEvents, rBalance>>

\* getTasks() view of the registry, lines 123-125: the task identifiers
getTaskIds(sender) ==
    /\ rLast' = RegReceipt("getTasks", "", sender, Ok, rTaskIds)
    /\ UNCHANGED <<rTasks, rTaskIds, rEvents, rBalance>>

RegCreateTaskTx ==
    /\ \E sender \in Callers, value \in Amounts, taskId \in TaskIds,
          schemaHash \in SchemaHashes, reward \in Amounts :
          createTaskWithReward(sender, value, taskId, schemaHash, reward)
    /\ UNCHANGED <<vars, aggVars, avgVars, balVars, dashVars>>

RegGetTaskCall ==
    /\ \E sender \in Callers, taskId \in TaskIds : getTask(sender, taskId)
    /\ UNCHANGED <<vars, aggVars, avgVars, balVars, dashVars>>

RegGetTasksCall ==
    /\ \E sender \in Callers : getTaskIds(sender)
    /\ UNCHANGED <<vars, aggVars, avgVars, balVars, dashVars>>

RegistryNext == RegCreateTaskTx \/ RegGetTaskCall \/ RegGetTasksCall

RegistrySpec == Init /\ [][RegistryNext]_allVars

\* -------------------------------------------------- federated averaging
\* at most this many weight sets are averaged at once
MaxNodes == 3

IncompatibleShapes == "IncompatibleShapes"

\* the weight sets nodes produce: a weight set is a sequence of tensors, a
\* tensor a sequence of numbers
WeightSets ==
    { << <<1, 2>>, <<3>> >>,
      << <<3, 4>>, <<5>> >>,
      << <<-1, 0>>, <<2>> >>,
      << <<1, 2, 3>> >> }

Abs(x) == IF x < 0 THEN -x ELSE x

RECURSIVE Gcd(_, _)
Gcd(a, b) == IF b = 0 THEN a ELSE Gcd(b, a % b)

\* the quotient p / q (q > 0) as a fraction in lowest terms
Quotient(p, q) ==
    LET g == Gcd(Abs(p), q) IN <<p \div g, q \div g>>

\* the number of tensors and the length of each
ShapeOf(weights) == [k \in 1..Len(weights) |-> Len(weights[k])]

\* element-wise sum of two weight sets of the same shape
AddWeights(a, b) ==
    [k \in 1..Len(a) |-> [j \in 1..Len(a[k]) |-> a[k][j] + b[k][j]]]

\* the running element-wise sum of the first i weight sets
RECURSIVE SumOfFirst(_, _)
SumOfFirst(list, i) ==
    IF i = 1 THEN list[1]
    ELSE AddWeights(SumOfFirst(list, i - 1), list[i])

\* federated averaging that weighs a weight set by its position in the list
federated_averagePositionWeighted(list) ==
    LET n == Len(list)
        RECURSIVE WeightedSum(_)
        WeightedSum(i) ==
            IF i = 1 THEN list[1]
            ELSE AddWeights(WeightedSum(i - 1),
                            [k \in 1..Len(list[i]) |->
                               [j \in 1..Len(list[i][k]) |->
                                  i * list[i][k][j]]])
        total == WeightedSum(n)
    IN  [k \in 1..Len(total) |->
           [j \in 1..Len(total[k]) |->
              Quotient(total[k][j], (n * (n + 1)) \div 2)]]

\* federated averaging with floor division
federated_averageFloorDivision(list) ==
    LET n == Len(list)
        total == SumOfFirst(list, n)
    IN  [k \in 1..Len(total) |->
           [j \in 1..Len(total[k]) |-> <<total[k][j] \div n, 1>>]]

\* federated_average(weight_list): sum, then divide by the number of sets
federated_average(list) ==
    LET n == Len(list)
        total == SumOfFirst(list, n)
    IN  [k \in 1..Len(total) |->
           [j \in 1..Len(total[k]) |-> Quotient(total[k][j], n)]]

\* the outcome of an averaging: an error or the averaged weights
Averaged(error, weights) == [error |-> error, weights |-> weights]

\* step 4 and 5 of the aggregation: reject differing shapes, else average
AverageWeights(list) ==
    IF \E i \in 1..Len(list) : ShapeOf(list[i]) # ShapeOf(list[1])
    THEN Averaged(IncompatibleShapes, <<>>)
    ELSE Averaged(Ok, federated_average(list))

\* the sequences of one to MaxNodes weight sets
WeightLists ==
    UNION { [1..n -> WeightSets] : n \in 1..MaxNodes }

AverageSpecInit ==
    /\ LedgerInit
    /\ RegistryInit
    /\ AggregatorInit
    /\ BalanceInit
    /\ DashboardInit
    /\ weight_list \in WeightLists
    /\ averaged = Averaged("pending", <<>>)

FederatedAverage ==
    /\ averaged.error = "pending"
    /\ averaged' = AverageWeights(weight_list)
    /\ UNCHANGED <<weight_list, vars, regVars, aggVars, balVars, dashVars>>

AverageNext == FederatedAverage

AverageSpec == AverageSpecInit /\ [][AverageNext]_allVars

\* ---------------------------------------------------- aggregation engine
\* at most this many events are emitted in a behaviour with aggregations
MaxAggEvents == 4

TransientError == "TransientError"

\* the task the aggregator works on and the schema it was created with
AggTaskIds == {"t1"}
AggSchemaHashes == {"s1"}
\* the submissions nodes make: a sound artifact, an altered one, and a
\* sound one of another shape
AggSubmitArgs ==
    SubmitArgs \cup { [hash |-> "QmE", meta |-> "r3", acc |-> 8500] }

\* the blobs that hold serialized weights
WeightBlobs == {1, 5}

\* the weight set a blob deserializes to
Deserialize(bytes) ==
    CASE bytes = 1 -> << <<1, 2>>, <<3>> >>
      [] bytes = 5 -> << <<1, 2, 3>> >>
      [] OTHER -> <<>>

\* averaged weights (fractions) that hold the same numbers as a weight set
SameNumbers(fractions, weights) ==
    /\ ShapeOf(fractions) = ShapeOf(weights)
    /\ \A k \in 1..Len(weights) : \A j \in 1..Len(weights[k]) :
          fractions[k][j] = <<weights[k][j], 1>>

\* the bytes of a weight set of fractions; equal numbers give equal bytes
Serialize(fractions) ==
    IF \E b \in WeightBlobs : SameNumbers(fractions, Deserialize(b))
    THEN CHOOSE b \in WeightBlobs : SameNumbers(fractions, Deserialize(b))
    ELSE 9

\* put(bytes) -> contentId
StorePut(bytes) == CidOf(bytes)

\* why a content identifier fails download-then-verify
VerificationFailure(contentId) ==
    IF StoreGet(contentId) = NotFound THEN "NotFound" ELSE IntegrityCheckFailed

\* the positions of the submissions that pass, and that fail, verification
IncludedOf(submissions) ==
    SelectSeq([i \in 1..Len(submissions) |-> i],
              LAMBDA i : IntegrityVerified(submissions[i].modelHash))

ExcludedOf(submissions) ==
    SelectSeq([i \in 1..Len(submissions) |-> i],
              LAMBDA i : ~IntegrityVerified(submissions[i].modelHash))

\* the audit record of an aggregation: the selection rule, the submissions
\* included, the submissions excluded with the reason of each, and the flag
\* of a final accuracy that was not evaluated
AggregationReport(submissions, included, excluded) ==
    [ selection |-> "all",
      included |-> [n \in 1..Len(included) |->
                      submissions[included[n]].modelHash],
      excluded |-> [n \in 1..Len(excluded) |->
                      <<excluded[n], submissions[excluded[n]].modelHash,
                        VerificationFailure(submissions[excluded[n]].modelHash)>>],
      accuracy |-> "unverified" ]

\* the metadata string that carries a report on the ledger
SerializeReport(report) == ToString(report)

\* a failed aggregation changes nothing on the ledger and is logged
AggregationFails(sender, taskId, error) ==
    /\ last' = Receipt("aggregate", taskId, sender, error)
    /\ aggLog' = [aggLog EXCEPT ![taskId] = error]
    /\ UNCHANGED <<tasks, taskIds, events>>

\* the last step of an aggregation: finalize on the ledger
FinalizeAggregation(sender, taskId, contentId, metadata) ==
    /\ submitFinalModel(sender, taskId, contentId, metadata, 0)
    /\ aggLog' = IF last'.result = Ok THEN aggLog
                 ELSE [aggLog EXCEPT ![taskId] = last'.result]

\* aggregation that averages every submission without verifying any
aggregate_resultsUnverified(sender, taskId, uploadOk) ==
    LET submissions == tasks[taskId].submissions
        included == [i \in 1..Len(submissions) |-> i]
        list == [n \in 1..Len(included) |->
                   Deserialize(StoreGet(submissions[included[n]].modelHash))]
    IN  IF tasks[taskId].creator = ZeroAddress
        THEN AggregationFails(sender, taskId, TaskNotFound)
        ELSE IF Len(included) < MinNodes
        THEN AggregationFails(sender, taskId, QuorumNotMet)
        ELSE IF AverageWeights(list).error # Ok
        THEN AggregationFails(sender, taskId, IncompatibleShapes)
        ELSE IF ~uploadOk
        THEN AggregationFails(sender, taskId, TransientError)
        ELSE FinalizeAggregation(sender, taskId,
                StorePut(Serialize(AverageWeights(list).weights)),
                SerializeReport(AggregationReport(submissions, included, <<>>)))

\* aggregation that writes its report to the ledger before the upload has
\* succeeded
aggregate_resultsWritesBeforeUpload(sender, taskId, uploadOk) ==
    LET submissions == tasks[taskId].submissions
        included == IncludedOf(submissions)
        excluded == ExcludedOf(submissions)
        list == [n \in 1..Len(included) |->
                   Deserialize(StoreGet(submissions[included[n]].modelHash))]
    IN  IF tasks[taskId].creator = ZeroAddress
        THEN AggregationFails(sender, taskId, TaskNotFound)
        ELSE IF Len(included) < MinNodes
        THEN AggregationFails(sender, taskId, QuorumNotMet)
        ELSE IF AverageWeights(list).error # Ok
        THEN AggregationFails(sender, taskId, IncompatibleShapes)
        ELSE IF ~uploadOk
        THEN /\ tasks' = [tasks EXCEPT ![taskId].finalModelMetadata =
                SerializeReport(AggregationReport(submissions, included, excluded))]
             /\ last' = Receipt("aggregate", taskId, sender, TransientError)
             /\ aggLog' = [aggLog EXCEPT ![taskId] = TransientError]
             /\ UNCHANGED <<taskIds, events>>
        ELSE FinalizeAggregation(sender, taskId,
                StorePut(Serialize(AverageWeights(list).weights)),
                SerializeReport(AggregationReport(submissions, included, excluded)))

\* aggregate_results(task_id, min_nodes): select every submission, verify
\* each, require the quorum, check the shapes, average, upload, finalize
aggregate_results(sender, taskId, uploadOk) ==
    LET submissions == tasks[taskId].submissions
        included == IncludedOf(submissions)
        excluded == ExcludedOf(submissions)
        list == [n \in 1..Len(included) |->
                   Deserialize(StoreGet(submissions[included[n]].modelHash))]
    IN  IF tasks[taskId].creator = ZeroAddress
        THEN AggregationFails(sender, taskId, TaskNotFound)
        ELSE IF Len(included) < MinNodes
        THEN AggregationFails(sender, taskId, QuorumNotMet)
        ELSE IF AverageWeights(list).error # Ok
        THEN AggregationFails(sender, taskId, IncompatibleShapes)
        ELSE IF ~uploadOk
        THEN AggregationFails(sender, taskId, TransientError)
        ELSE FinalizeAggregation(sender, taskId,
                StorePut(Serialize(AverageWeights(list).weights)),
                SerializeReport(AggregationReport(submissions, included, excluded)))

AggCreateTaskTx ==
    /\ Len(events) < MaxAggEvents
    /\ Block
    /\ \E sender \in Callers, taskId \in AggTaskIds,
          schemaHash \in AggSchemaHashes :
          createTask(sender, taskId, schemaHash)
    /\ UNCHANGED <<regVars, aggVars, avgVars, balVars, dashVars>>

AggSubmitModelTx ==
    /\ Len(events) < MaxAggEvents
    /\ Block
    /\ \E sender \in Callers, taskId \in AggTaskIds, a \in AggSubmitArgs :
          submitModel(sender, taskId, a.hash, a.meta, a.acc)
    /\ UNCHANGED <<regVars, aggVars, avgVars, balVars, dashVars>>

AggregateTx ==
    /\ Len(events) < MaxAggEvents
    /\ Block
    /\ \E sender \in Callers, taskId \in AggTaskIds, uploadOk \in BOOLEAN :
          aggregate_results(sender, taskId, uploadOk)
    /\ UNCHANGED <<regVars, avgVars, balVars, dashVars>>

AggregationNext == AggCreateTaskTx \/ AggSubmitModelTx \/ AggregateTx

AggregationSpec == Init /\ [][AggregationNext]_allVars

\* ------------------------------------------------------------ dashboard
\* The dashboard page reads the contract once, when it is mounted, and
\* shows what it read; the ledger goes on changing under it.
\* at most this many events are emitted in a behaviour of the dashboard runs
MaxDashEvents == 3

\* the accounts, schemas and models of the dashboard runs
DashCallers == {1}
DashSchemaHashes == {"s1"}
DashSubmitArgs ==
    { [hash |-> "QmA", meta |-> "r1", acc |-> 9000],
      [hash |-> "QmB", meta |-> "r2", acc |-> 10000] }
DashFinalArgs ==
    { [hash |-> "QmA", meta |-> "r1", acc |-> 8500],
      [hash |-> "", meta |-> "r0", acc |-> 7000] }

\* the divisor of "Number(x) / 10000"
AccuracyScale == 10000
\* the factor of "Number(sub.timestamp) * 1000" (seconds to milliseconds)
MsPerSecond == 1000
\* the factor of "sessionData.globalAccuracy * 100"
PercentFactor == 100

\* a string is truthy when it is not empty
Truthy(str) == str # ""

\* the elements of a sequence, last first (Array.prototype.reverse)
Reverse(seq) == [i \in 1..Len(seq) |-> seq[Len(seq) + 1 - i]]

\* the product of a fraction and a whole number, in lowest terms
Times(f, k) == Quotient(f[1] * k, f[2])

\* the digits after the decimal point of r / d (r < d, d a divisor of a
\* power of ten, so the expansion ends)
RECURSIVE FractionDigits(_, _)
FractionDigits(r, d) ==
    IF r = 0 THEN ""
    ELSE ToString((r * 10) \div d) \o FractionDigits((r * 10) % d, d)

\* the text of a number in a page: its shortest decimal expansion
NumberText(f) ==
    IF f[1] % f[2] = 0
    THEN ToString(f[1] \div f[2])
    ELSE ToString(f[1] \div f[2]) \o "." \o FractionDigits(f[1] % f[2], f[2])

\* getTasks of the page that divides the final accuracy by 100 and the
\* submissions' by 10000
dashboardGetTasksPercentUnits ==
    [i \in 1..Len(getTasks) |->
       LET task == getTasks[i]
       IN  [ id |-> task.taskId,
             schemaHash |-> task.schemaHash,
             creator |-> task.creator,
             timestamp |-> task.timestamp,
             finalModelCID |-> task.finalModelHash,
             finalAccuracy |-> Quotient(task.finalAccuracy, PercentFactor),
             submissions |->
                [k \in 1..Len(task.submissions) |->
                   LET sub == task.submissions[k]
                   IN  [ modelHash |-> sub.modelHash,
                         submitter |-> sub.submitter,
                         timestamp |-> sub.timestamp * MsPerSecond,
                         accuracy |-> Quotient(sub.accuracy, AccuracyScale) ]] ]]

\* getTasks of the page: contract.getTasks() with every number converted
\* and both accuracies divided by 10000
dashboardGetTasks ==
    [i \in 1..Len(getTasks) |->
       LET task == getTasks[i]
       IN  [ id |-> task.taskId,
             schemaHash |-> task.schemaHash,
             creator |-> task.creator,
             timestamp |-> task.timestamp,
             finalModelCID |-> task.finalModelHash,
             finalAccuracy |-> Quotient(task.finalAccuracy, AccuracyScale),
             submissions |->
                [k \in 1..Len(task.submissions) |->
                   LET sub == task.submissions[k]
                   IN  [ modelHash |-> sub.modelHash,
                         submitter |-> sub.submitter,
                         timestamp |-> sub.timestamp * MsPerSecond,
                         accuracy |-> Quotient(sub.accuracy, AccuracyScale) ]] ]]

\* the entry of a task in the list view
SessionListItem(task) ==
    [ id |-> task.id,
      name |-> "Task " \o task.id,
      participants |-> Len(task.submissions),
      status |-> IF Truthy(task.finalModelCID) THEN "Completed" ELSE "Active" ]

\* the entry of a task in the detail view
SessionDetailData(task) ==
    [ id |-> task.id,
      name |-> "Task " \o task.id,
      schemaHash |-> task.schemaHash,
      globalAccuracy |-> task.finalAccuracy,
      globalModelCID |-> task.finalModelCID,
      status |-> IF Truthy(task.finalModelCID) THEN "Completed" ELSE "Active",
      updates |->
         [k \in 1..Len(task.submissions) |->
            LET sub == task.submissions[k]
            IN  [ worker |-> sub.submitter,
                  model_hash |-> sub.modelHash,
                  signature |-> "",
                  accuracy |-> sub.accuracy,
                  timestamp |-> sub.timestamp,
                  cid |-> sub.modelHash ]] ]

\* the number in front of the percent sign of a node update's accuracy
NodeAccuracyText(update) == NumberText(update.accuracy)

\* the number in front of the percent sign of the global accuracy
GlobalAccuracyText(sessionData) ==
    NumberText(Times(sessionData.globalAccuracy, PercentFactor))

\* the global accuracy card is rendered only for a positive accuracy
GlobalAccuracyShown(sessionData) == sessionData.globalAccuracy[1] > 0

\* fetchTasksFromContract: the mount effect; when the call fails the error
\* is logged and the page keeps its empty lists
fetchTasksFromContract(ok) ==
    /\ fetchPc = "pending"
    /\ IF ok
       THEN LET taskList == Reverse(dashboardGetTasks)
            IN  /\ sessionList' =
                      [i \in 1..Len(taskList) |-> SessionListItem(taskList[i])]
                /\ detailedSessions' =
                      [i \in 1..Len(taskList) |-> SessionDetailData(taskList[i])]
                /\ fetchPc' = "done"
       ELSE /\ fetchPc' = "failed"
            /\ UNCHANGED <<sessionList, detailedSessions>>

DashCreateTaskTx ==
    /\ Len(events) < MaxDashEvents
    /\ Block
    /\ \E sender \in DashCallers, taskId \in TaskIds,
          schemaHash \in DashSchemaHashes :
          createTask(sender, taskId, schemaHash)
    /\ UNCHANGED <<regVars, aggVars, avgVars, balVars, dashVars>>

DashSubmitModelTx ==
    /\ Len(events) < MaxDashEvents
    /\ Block
    /\ \E sender \in DashCallers, taskId \in TaskIds, a \in DashSubmitArgs :
          submitModel(sender, taskId, a.hash, a.meta, a.acc)
    /\ UNCHANGED <<regVars, aggVars, avgVars, balVars, dashVars>>

DashSubmitFinalModelTx ==
    /\ Len(events) < MaxDashEvents
    /\ Block
    /\ \E sender \in DashCallers, taskId \in TaskIds, a \in DashFinalArgs :
          submitFinalModel(sender, taskId, a.hash, a.meta, a.acc)
    /\ UNCHANGED <<regVars, aggVars, avgVars, balVars, dashVars>>

FetchTasks ==
    /\ \E ok \in BOOLEAN : fetchTasksFromContract(ok)
    /\ UNCHANGED <<vars, regVars, aggVars, avgVars, balVars>>

DashboardNext ==
    DashCreateTaskTx \/ DashSubmitModelTx \/ DashSubmitFinalModelTx \/ FetchTasks

DashboardSpec == Init /\ [][DashboardNext]_allVars

\* ----------------------------------------------- value held by the contract
\* createTask is payable; submitModel and submitFinalModel are not, and a
\* call of them that carries value is rejected before their body runs, so
\* their transactions carry none.
\* at most this many events are emitted in a behaviour of the payment runs
MaxPayEvents == 3

\* the schemas of the payment runs
PaySchemaHashes == {"s1"}

\* a transaction that pays out the contract's balance when it finalizes
TransactReleasesOnFinalize(value) ==
    balance' = IF last'.result # Ok THEN balance
               ELSE IF last'.op = "submitFinalModel" THEN 0
               ELSE balance + value

\* the value of a transaction: credited to the contract when the call
\* succeeds, returned to the sender when it reverts; no statement of the
\* contract sends ether
Transact(value) ==
    balance' = IF last'.result = Ok THEN balance + value ELSE balance

PayCreateTaskTx ==
    /\ Len(events) < MaxPayEvents
    /\ Block
    /\ \E sender \in Callers, value \in Amounts, taskId \in TaskIds,
          schemaHash \in PaySchemaHashes :
          /\ createTask(sender, taskId, schemaHash)
          /\ Transact(value)
    /\ UNCHANGED <<regVars, aggVars, avgVars, dashVars>>

PaySubmitModelTx ==
    /\ Len(events) < MaxPayEvents
    /\ Block
    /\ \E sender \in Callers, taskId \in TaskIds, a \in SubmitArgs :
          /\ submitModel(sender, taskId, a.hash, a.meta, a.acc)
          /\ Transact(0)
    /\ UNCHANGED <<regVars, aggVars, avgVars, dashVars>>

PaySubmitFinalModelTx ==
    /\ Len(events) < MaxPayEvents
    /\ Block
    /\ \E sender \in Callers, taskId \in TaskIds, a \in FinalArgs :
          /\ submitFinalModel(sender, taskId, a.hash, a.meta, a.acc)
          /\ Transact(0)
    /\ UNCHANGED <<regVars, aggVars, avgVars, dashVars>>

PayableNext == PayCreateTaskTx \/ PaySubmitModelTx \/ PaySubmitFinalModelTx

PayableSpec == Init /\ [][PayableNext]_allVars

\* ------------------------------------------------------------ properties
\* the positions of the named event for a task in the event log
EventsOf(name, taskId) ==
    { i \in 1..Len(events) :
        events[i].name = name /\ events[i].taskId = taskId }

\* a submitFinalModel call has succeeded for the task
FinalizeSucceeded(taskId) == EventsOf("FinalModelSubmitted", taskId) # {}

\* this step is a call of the function on the task
Called(op, taskId) == last'.op = op /\ last'.taskId = taskId

\* the call of this step left storage and the event log as they were
NothingWritten == tasks' = tasks /\ taskIds' = taskIds /\ events' = events

\* the three fields of a task that make up its final model
FinalModelOf(task) ==
    <<task.finalModelHash, task.finalModelMetadata, task.finalAccuracy>>

\* C1: once a submitFinalModel call by the creator has succeeded for a task,
\* every later submitFinalModel call by the creator on that task fails with
\* "Final model already submitted", whatever its arguments.
C1_FinalizeAtMostOnce ==
    [][ \A t \in TaskIds :
          ( /\ FinalizeSucceeded(t)
            /\ Called("submitFinalModel", t)
            /\ last'.caller = tasks[t].creator )
          => last'.result = AlreadyFinalized ]_vars

\* C2: once submitFinalModel has succeeded for a task, every submitModel call
\* for that task fails with TaskSealed and its submissions never grow again.
C2_FinalizedTaskIsSealed ==
    [][ \A t \in TaskIds :
          FinalizeSucceeded(t)
          => /\ tasks'[t].submissions = tasks[t].submissions
             /\ Called("submitModel", t) => last'.result = TaskSealed ]_vars

\* C3: a submitFinalModel call on a task with fewer than MinNodes recorded
\* submissions never succeeds; when nothing else is wrong with the call it
\* fails with QuorumNotMet.
C3_QuorumBeforeFinalization ==
    [][ \A t \in TaskIds :
          ( /\ Called("submitFinalModel", t)
            /\ Len(tasks[t].submissions) < MinNodes )
          => /\ last'.result # Ok
             /\ ( /\ last'.caller = tasks[t].creator
                  /\ ~FinalizeSucceeded(t) )
                => last'.result = QuorumNotMet ]_vars

\* C4: a submitFinalModel call on an existing task by anyone but its creator
\* fails with the unauthorized error and writes nothing; a task's final model
\* changes only in a submitFinalModel call by its creator; and the sender of
\* every FinalModelSubmitted event is the creator of its task.
C4_OnlyCreatorFinalizes ==
    /\ [][ \A t \in TaskIds :
             /\ ( /\ Called("submitFinalModel", t)
                  /\ tasks[t].creator # ZeroAddress
                  /\ last'.caller # tasks[t].creator )
                => (last'.result = Unauthorized /\ NothingWritten)
             /\ ( \/ FinalModelOf(tasks'[t]) # FinalModelOf(tasks[t])
                  \/ EventsOf("FinalModelSubmitted", t)' #
                        EventsOf("FinalModelSubmitted", t) )
                => ( /\ Called("submitFinalModel", t)
                     /\ last'.caller = tasks[t].creator ) ]_vars
    /\ [](\A i \in 1..Len(events) :
             events[i].name = "FinalModelSubmitted"
             => events[i].who = tasks[events[i].taskId].creator)

\* C4 witness: an account that has submitted a model to the task and is not
\* its creator has just been refused the finalization of that task.
C4_Witness ==
    /\ last.op = "submitFinalModel"
    /\ last.result = Unauthorized
    /\ last.caller # tasks[last.taskId].creator
    /\ \E i \in 1..Len(tasks[last.taskId].submissions) :
          tasks[last.taskId].submissions[i].submitter = last.caller

\* C5: createTask on a taskId that already exists fails with "Task already
\* exists" and writes nothing, whoever calls it and whatever schemaHash it
\* passes.
C5_DuplicateCreationRejected ==
    [][ \A t \in TaskIds :
          (Called("createTask", t) /\ tasks[t].creator # ZeroAddress)
          => (last'.result = TaskAlreadyExists /\ NothingWritten) ]_vars

\* C5 witness: a createTask by another account than the creator has just been
\* rejected as a duplicate.
C5_Witness ==
    /\ last.op = "createTask"
    /\ last.result = TaskAlreadyExists
    /\ tasks[last.taskId].creator \notin {ZeroAddress, last.caller}

\* C6: every recorded submission references a content identifier that
\* resolves in the content store to bytes whose hash is that identifier.
C6_SubmissionsAreIntegrityChecked ==
    \A t \in TaskIds :
       \A i \in 1..Len(tasks[t].submissions) :
          IntegrityVerified(tasks[t].submissions[i].modelHash)

\* C7: submitModel on a taskId that was never created fails with "Task not
\* found" and writes nothing; every recorded submission and every
\* ModelSubmitted event belongs to a task that was created.
C7_SubmitToUnknownTaskFails ==
    /\ [][ \A t \in TaskIds :
             (Called("submitModel", t) /\ tasks[t].creator = ZeroAddress)
             => (last'.result = TaskNotFound /\ NothingWritten) ]_vars
    /\ [](\A t \in TaskIds :
             ( \/ tasks[t].submissions # <<>>
               \/ EventsOf("ModelSubmitted", t) # {} )
             => ( /\ tasks[t].creator # ZeroAddress
                  /\ \E i \in 1..Len(taskIds) : taskIds[i] = t ))

\* C7 witness: a submitModel on a task that does not exist has just failed
\* while another task exists.
C7_Witness ==
    /\ last.op = "submitModel"
    /\ last.result = TaskNotFound
    /\ tasks[last.taskId].creator = ZeroAddress
    /\ taskIds # <<>>

\* C8: of all createTask attempts for one taskId, in any order, exactly one
\* succeeds; every other one observes "Task already exists"; and the stored
\* creator and schemaHash are those of the one that succeeded.
C8_ConcurrentCreateTask ==
    /\ \A t \in TaskIds :
          /\ Cardinality(EventsOf("TaskCreated", t)) <= 1
          /\ tasks[t].creator # ZeroAddress <=> EventsOf("TaskCreated", t) # {}
          /\ \A i \in EventsOf("TaskCreated", t) :
                /\ tasks[t].creator = events[i].who
                /\ tasks[t].schemaHash = events[i].hash
    /\ last.op = "createTask"
       => IF last.result = Ok
          THEN \E i \in EventsOf("TaskCreated", last.taskId) :
                  events[i].who = last.caller
          ELSE /\ last.result = TaskAlreadyExists
               /\ EventsOf("TaskCreated", last.taskId) # {}

\* C8 witness: both accounts have attempted the same taskId; the later one
\* lost, and the stored creator is the earlier one.
C8_Witness ==
    /\ last.op = "createTask"
    /\ last.result = TaskAlreadyExists
    /\ \E i \in EventsOf("TaskCreated", last.taskId) :
          /\ events[i].who # last.caller
          /\ tasks[last.taskId].creator = events[i].who

\* C9: of the submitFinalModel attempts for one task, in any order, at most
\* one succeeds, and the stored final model is the hash, metadata and
\* accuracy of that one.
C9_RacingFinalization ==
    \A t \in TaskIds :
       /\ Cardinality(EventsOf("FinalModelSubmitted", t)) <= 1
       /\ \A i \in EventsOf("FinalModelSubmitted", t) :
             FinalModelOf(tasks[t]) =
                <<events[i].hash, events[i].metadata, events[i].accuracy>>

\* C10: once a submitFinalModel call has succeeded for a task, the task's
\* final model hash, metadata and accuracy never change again.
C10_FinalModelImmutable ==
    [][ \A t \in TaskIds :
          FinalizeSucceeded(t)
          => FinalModelOf(tasks'[t]) = FinalModelOf(tasks[t]) ]_vars

\* the event each function emits when it succeeds
EventNameOf(op) ==
    CASE op = "createTask" -> "TaskCreated"
      [] op = "submitModel" -> "ModelSubmitted"
      [] op = "submitFinalModel" -> "FinalModelSubmitted"
      [] OTHER -> "none"

\* s is an initial segment of t
IsPrefix(s, t) == Len(s) <= Len(t) /\ SubSeq(t, 1, Len(s)) = s

\* C11: every call either succeeds, and then appends exactly one event, the
\* one of its function and task, to the event log, or fails, and then the
\* task list, every task, every submissions sequence, every final model and
\* the event log are what they were.
C11_NoPartialCommit ==
    [][ IF last'.result = Ok
        THEN /\ Len(events') = Len(events) + 1
             /\ IsPrefix(events, events')
             /\ events'[Len(events')].name = EventNameOf(last'.op)
             /\ events'[Len(events')].taskId = last'.taskId
             /\ events'[Len(events')].who = last'.caller
        ELSE NothingWritten ]_vars

\* C11 witness: a second finalization has just failed on a ledger that holds
\* a created and finalized task, and the log still has its two events.
C11_Witness ==
    /\ last.result = AlreadyFinalized
    /\ tasks[last.taskId].finalModelHash # ""
    /\ Len(events) = 2

\* C12: the submissions of a task only ever grow at the end: the earlier
\* sequence is a prefix of the later one; a successful submitModel appends
\* exactly one submission, the caller's, stamped with the block time; and
\* nothing but a successful submitModel on the task changes its length.
C12_SubmissionsAppendOnly ==
    [][ \A t \in TaskIds :
          LET before == tasks[t].submissions
              after == tasks'[t].submissions
          IN  /\ IsPrefix(before, after)
              /\ (Called("submitModel", t) /\ last'.result = Ok)
                 => /\ Len(after) = Len(before) + 1
                    /\ after[Len(after)].submitter = last'.caller
                    /\ after[Len(after)].timestamp = now'
              /\ Len(after) # Len(before)
                 => (Called("submitModel", t) /\ last'.result = Ok) ]_vars

\* C12 witness: one account has two submissions recorded for the same task,
\* the second after the first.
C12_Witness ==
    \E t \in TaskIds :
       /\ Len(tasks[t].submissions) = 2
       /\ tasks[t].submissions[1].submitter = tasks[t].submissions[2].submitter
       /\ tasks[t].submissions[1].modelHash # tasks[t].submissions[2].modelHash

\* the ModelSubmitted events of a task, in the order the ledger committed them
SubmittedEvents(taskId) ==
    SelectSeq(events, LAMBDA e : e.name = "ModelSubmitted" /\ e.taskId = taskId)

\* C13: the submissions of a task are, one for one and in the same order,
\* the successful submitModel calls the ledger committed for it: none is
\* lost and none is duplicated, whoever sent them and in whatever order.
C13_ConcurrentSubmissionsKept ==
    \A t \in TaskIds :
       LET subs == tasks[t].submissions
           evs == SubmittedEvents(t)
       IN  /\ Len(subs) = Len(evs)
           /\ \A i \in 1..Len(subs) :
                 /\ subs[i].modelHash = evs[i].hash
                 /\ subs[i].submitter = evs[i].who
                 /\ subs[i].accuracy = evs[i].accuracy
                 /\ subs[i].modelMetadata = evs[i].metadata

\* C13 witness: two different accounts have submitted different models to
\* the same task and both are recorded.
C13_Witness ==
    \E t \in TaskIds :
       /\ Len(tasks[t].submissions) = 2
       /\ tasks[t].submissions[1].submitter # tasks[t].submissions[2].submitter
       /\ tasks[t].submissions[1].modelHash # tasks[t].submissions[2].modelHash

\* the fields that identify a task
IdentityOf(task) ==
    <<task.taskId, task.schemaHash, task.creator, task.timestamp>>

\* C14: once a task is created, its taskId, schemaHash, creator and creation
\* timestamp are never changed by any call on any taskId.
C14_TaskIdentityImmutable ==
    [][ \A t \in TaskIds :
          tasks[t].creator # ZeroAddress
          => IdentityOf(tasks'[t]) = IdentityOf(tasks[t]) ]_vars

\* C14 witness: a submission has just been recorded, in a later block than
\* the creation, for a task that another account created.
C14_Witness ==
    /\ last.op = "submitModel"
    /\ last.result = Ok
    /\ tasks[last.taskId].timestamp < now
    /\ tasks[last.taskId].creator # last.caller
    /\ tasks[last.taskId].taskId = last.taskId

\* the taskIds of the TaskCreated events, in the order of the event log
CreationOrder ==
    LET created == SelectSeq(events, LAMBDA e : e.name = "TaskCreated")
    IN  [i \in 1..Len(created) |-> created[i].taskId]

\* C15: getTasks returns one entry per created task and none for any other
\* taskId, without duplicates, in creation order; and an entry once returned
\* is returned, at the same position, by every later getTasks.
C15_GetTasksListsCreatedTasks ==
    /\ [](LET list == getTasks
          IN  /\ Len(list) =
                    Cardinality({ t \in TaskIds : tasks[t].creator # ZeroAddress })
              /\ \A i, j \in 1..Len(list) :
                    list[i].taskId = list[j].taskId => i = j
              /\ \A t \in TaskIds :
                    (\E i \in 1..Len(list) : list[i].taskId = t)
                    <=> tasks[t].creator # ZeroAddress
              /\ [i \in 1..Len(list) |-> list[i].taskId] = CreationOrder)
    /\ [][ \A i \in 1..Len(getTasks) :
             /\ i <= Len(getTasks')
             /\ getTasks'[i].taskId = getTasks[i].taskId ]_vars

\* C15 witness: both tasks have been created, "t2" before "t1", and getTasks
\* returns them in that order.
C15_Witness ==
    /\ Len(getTasks) = 2
    /\ getTasks[1].taskId = "t2"
    /\ getTasks[2].taskId = "t1"

\* C16: for every successful createTask, getTasks returns, in every later
\* state, a task with that taskId whose schemaHash is the one supplied and
\* whose creator is the caller of that createTask.
C16_CreateReadRoundTrip ==
    /\ [](\A i \in 1..Len(events) :
             events[i].name = "TaskCreated"
             => \E j \in 1..Len(getTasks) :
                   /\ getTasks[j].taskId = events[i].taskId
                   /\ getTasks[j].schemaHash = events[i].hash
                   /\ getTasks[j].creator = events[i].who)
    /\ [][ \A t \in TaskIds :
             (Called("createTask", t) /\ last'.result = Ok)
             => \E j \in 1..Len(getTasks') :
                   /\ getTasks'[j].taskId = t
                   /\ getTasks'[j].creator = last'.caller ]_vars

\* C16 witness: a task created with schema "s2" by account 2 has since
\* received a submission and a final model from its creator, and getTasks
\* still returns it with that schema and creator.
C16_Witness ==
    \E j \in 1..Len(getTasks) :
       /\ getTasks[j].schemaHash = "s2"
       /\ getTasks[j].creator = 2
       /\ getTasks[j].submissions # <<>>
       /\ getTasks[j].finalModelHash # ""

\* the TaskCreated events of the registry for a task
RegCreationEvents(taskId) ==
    { i \in 1..Len(rEvents) : rEvents[i].taskId = taskId }

\* C17: getTask on a taskId that has no creation event fails with "Task not
\* found" and returns nothing; on a created taskId it succeeds and returns
\* the schemaHash and the creator of the creation (and its reward).
C17_GetTaskOfUnknownTaskFails ==
    rLast.op = "getTask"
    => IF RegCreationEvents(rLast.taskId) = {}
       THEN rLast.result = TaskNotFound /\ rLast.ret = <<>>
       ELSE /\ rLast.result = Ok
            /\ \A i \in RegCreationEvents(rLast.taskId) :
                  rLast.ret = <<rEvents[i].schemaHash, rEvents[i].creator,
                                rEvents[i].reward>>
            /\ rLast.ret[1] = rTasks[rLast.taskId].schemaHash
            /\ rLast.ret[2] = rTasks[rLast.taskId].creator

\* C17 witness: getTask has just failed on a taskId that was never created
\* while the other task exists in the registry.
C17_Witness ==
    /\ rLast.op = "getTask"
    /\ rLast.result = TaskNotFound
    /\ ~rTasks[rLast.taskId].exists
    /\ rTaskIds # <<>>

\* the sum of the elements at one position over the first i weight sets
RECURSIVE ElementSum(_, _, _, _)
ElementSum(list, i, k, j) ==
    IF i = 0 THEN 0 ELSE ElementSum(list, i - 1, k, j) + list[i][k][j]

\* C20: for weight sets of identical shape the averaged weights have that
\* shape and each element is the sum of the corresponding elements divided
\* by the number of weight sets (as a fraction in lowest terms); averaging
\* [[1,2],[3]] and [[3,4],[5]] gives [[2,3],[4]].
C20_FederatedAverageIsMean ==
    averaged.error = Ok
    => LET n == Len(weight_list)
           out == averaged.weights
       IN  /\ ShapeOf(out) = ShapeOf(weight_list[1])
           /\ \A k \in 1..Len(out) : \A j \in 1..Len(out[k]) :
                 /\ out[k][j][2] > 0
                 /\ out[k][j][1] * n =
                       out[k][j][2] * ElementSum(weight_list, n, k, j)
                 /\ Gcd(Abs(out[k][j][1]), out[k][j][2]) = 1
           /\ weight_list = << << <<1, 2>>, <<3>> >>, << <<3, 4>>, <<5>> >> >>
              => out = << << <<2, 1>>, <<3, 1>> >>, << <<4, 1>> >> >>

\* C20 witness: three weight sets of the same shape have been averaged and
\* an element of the mean is not a whole number.
C20_Witness ==
    /\ averaged.error = Ok
    /\ Len(weight_list) = 3
    /\ \E k \in 1..Len(averaged.weights) :
          \E j \in 1..Len(averaged.weights[k]) :
             averaged.weights[k][j][2] = 3

\* this step is an aggregation of the task (its last step is the call of
\* submitFinalModel)
Aggregated(taskId) ==
    /\ last'.taskId = taskId
    /\ last'.op \in {"aggregate", "submitFinalModel"}

\* the increasing sequences of positions of a sequence of n elements
PositionLists(n) ==
    { SelectSeq([i \in 1..n |-> i], LAMBDA i : i \in S) : S \in SUBSET (1..n) }

\* the elements of a sequence
Range(seq) == { seq[i] : i \in 1..Len(seq) }

\* C18: in an aggregation of an existing task, fewer verified submissions
\* than MinNodes make it fail with QuorumNotMet with nothing written; and
\* when it succeeds, the verified submissions are at least MinNodes, the
\* final metadata is the report that lists as excluded, each with its
\* reason, exactly the submissions that fail download-then-verify, and the
\* final model is the average of the verified ones alone.
C18_OnlyVerifiedAggregated ==
    [][ \A t \in TaskIds :
          LET subs == tasks[t].submissions
              verified == { i \in 1..Len(subs) :
                              IntegrityVerified(subs[i].modelHash) }
          IN  (Aggregated(t) /\ tasks[t].creator # ZeroAddress)
              => /\ Cardinality(verified) < MinNodes
                    => (last'.result = QuorumNotMet /\ NothingWritten)
                 /\ last'.result = Ok
                    => /\ Cardinality(verified) >= MinNodes
                       /\ \E inc \in PositionLists(Len(subs)),
                             exc \in PositionLists(Len(subs)) :
                             /\ Range(inc) = verified
                             /\ Range(exc) = (1..Len(subs)) \ verified
                             /\ tasks'[t].finalModelMetadata =
                                   SerializeReport(
                                      AggregationReport(subs, inc, exc))
                             /\ tasks'[t].finalModelHash =
                                   StorePut(Serialize(federated_average(
                                      [n \in 1..Len(inc) |->
                                         Deserialize(StoreGet(
                                            subs[inc[n]].modelHash))])))
      ]_allVars

\* C18 witness: an aggregation has just finalized a task that holds a
\* submission whose artifact fails verification.
C18_Witness ==
    /\ last.op = "submitFinalModel"
    /\ last.result = Ok
    /\ tasks[last.taskId].finalModelHash = "QmA"
    /\ \E i \in 1..Len(tasks[last.taskId].submissions) :
          ~IntegrityVerified(tasks[last.taskId].submissions[i].modelHash)

\* C19: an aggregation that fails at any step writes nothing: no event is
\* recorded and every task, with its submissions and its missing final
\* model, is what it was; and an earlier failure blocks no later attempt:
\* the creator's aggregation of a task that failed before, is not finalized
\* and now holds a quorum of verified submissions of one shape fails only
\* for a failing upload, and otherwise finalizes the task.
C19_AggregationFailureAtomic ==
    [][ \A t \in TaskIds :
          LET subs == tasks[t].submissions
              inc == IncludedOf(subs)
          IN  Aggregated(t)
              => /\ last'.result # Ok
                    => (NothingWritten /\ aggLog'[t] = last'.result)
                 /\ ( /\ aggLog[t] # ""
                      /\ last'.caller = tasks[t].creator
                      /\ tasks[t].creator # ZeroAddress
                      /\ tasks[t].finalModelHash = ""
                      /\ Len(inc) >= MinNodes
                      /\ \A n \in 1..Len(inc) :
                            subs[inc[n]].modelHash = subs[inc[1]].modelHash )
                    => \/ last'.result = TransientError
                       \/ /\ last'.result = Ok
                          /\ FinalizeSucceeded(t)'
                          /\ aggLog'[t] = aggLog[t]
      ]_allVars

\* C19 witness: the task's aggregation failed for want of a quorum, a
\* verified submission arrived, and the creator's next aggregation has just
\* finalized it.
C19_Witness ==
    /\ last.op = "submitFinalModel"
    /\ last.result = Ok
    /\ aggLog[last.taskId] = QuorumNotMet
    /\ FinalizeSucceeded(last.taskId)

\* the orders in which n weight sets can be combined
Orders(n) ==
    { p \in [1..n -> 1..n] : \A i, j \in 1..n : p[i] = p[j] => i = j }

\* the weight sets of the list in the order p
Permuted(list, p) == [i \in 1..Len(list) |-> list[p[i]]]

\* C21: the outcome of averaging a list of weight sets (the averaged weights,
\* or the shape error) is the outcome of averaging the same weight sets in
\* every other order.
C21_AveragingPermutationInvariant ==
    averaged.error # "pending"
    => \A p \in Orders(Len(weight_list)) :
          AverageWeights(Permuted(weight_list, p)) = averaged

\* C21 witness: three weight sets of one shape, no two of them equal, have
\* been averaged.
C21_Witness ==
    /\ averaged.error = Ok
    /\ Len(weight_list) = 3
    /\ \A i, j \in 1..3 : weight_list[i] = weight_list[j] => i = j

\* keccak256 of a string: the 32-byte digest that takes the place of an
\* indexed string argument in the topics of a log entry
Keccak256(str) == "keccak256(" \o str \o ")"

\* what the log keeps of an emitted event: taskId and the hash argument are
\* indexed strings, kept as their digests; the address is an indexed value
\* type and accuracy and metadata are data, all three kept as they are
LogEntry(e) ==
    [ name |-> e.name, taskId |-> Keccak256(e.taskId),
      hash |-> Keccak256(e.hash), who |-> e.who,
      accuracy |-> e.accuracy, metadata |-> e.metadata ]

\* the log entries of the events emitted so far, in order
EventLog == [i \in 1..Len(events) |-> LogEntry(events[i])]

\* what an audit compares of a task: creator, schemaHash, the ordered
\* submissions and the final model
AuditView(creator, schemaHash, submissions, finalModel) ==
    [ creator |-> creator, schemaHash |-> schemaHash,
      submissions |-> submissions, finalModel |-> finalModel ]

\* the audit view of a task as getTasks returns it
StoredView(task) ==
    AuditView(task.creator, task.schemaHash,
              [i \in 1..Len(task.submissions) |->
                 [ modelHash |-> task.submissions[i].modelHash,
                   submitter |-> task.submissions[i].submitter,
                   accuracy |-> task.submissions[i].accuracy,
                   metadata |-> task.submissions[i].modelMetadata ]],
              [ hash |-> task.finalModelHash,
                accuracy |-> task.finalAccuracy,
                metadata |-> task.finalModelMetadata ])

\* the effect of one log entry on the view replayed so far
ApplyLogEntry(view, entry) ==
    CASE entry.name = "TaskCreated" ->
            [view EXCEPT !.creator = entry.who, !.schemaHash = entry.hash]
      [] entry.name = "ModelSubmitted" ->
            [view EXCEPT !.submissions =
                Append(@, [ modelHash |-> entry.hash, submitter |-> entry.who,
                            accuracy |-> entry.accuracy,
                            metadata |-> entry.metadata ])]
      [] entry.name = "FinalModelSubmitted" ->
            [view EXCEPT !.finalModel =
                [ hash |-> entry.hash, accuracy |-> entry.accuracy,
                  metadata |-> entry.metadata ]]

\* the view of a task rebuilt from the first n entries of the log: the
\* entries whose taskId topic is the digest of the task's id, in order
RECURSIVE Replay(_, _, _)
Replay(log, n, taskId) ==
    IF n = 0
    THEN AuditView(ZeroAddress, "", <<>>,
                   [hash |-> "", accuracy |-> 0, metadata |-> ""])
    ELSE IF log[n].taskId = Keccak256(taskId)
    THEN ApplyLogEntry(Replay(log, n - 1, taskId), log[n])
    ELSE Replay(log, n - 1, taskId)

\* C22: in every reachable state, for every task getTasks returns, replaying
\* the log of TaskCreated, ModelSubmitted and FinalModelSubmitted events in
\* order rebuilds the creator, schemaHash, ordered submissions (modelHash,
\* submitter, accuracy, metadata) and final model (hash, accuracy, metadata)
\* that getTasks returns for it.
C22_EventLogReplaysToStoredState ==
    \A i \in 1..Len(getTasks) :
       Replay(EventLog, Len(EventLog), getTasks[i].taskId)
          = StoredView(getTasks[i])

\* the submitters of a task's submissions, in order
SubmittersOf(task) ==
    [i \in 1..Len(task.submissions) |-> task.submissions[i].submitter]

\* C23: the creator stored for a task is the caller of the createTask that
\* succeeded for it and is written by no other call; the submitter of a
\* submission is the caller of the submitModel that appended it and never
\* changes afterwards; this holds for every argument a caller can pass.
C23_RecordedIdentitiesAreCallers ==
    [][ \A t \in TaskIds :
          /\ tasks'[t].creator # tasks[t].creator
             => /\ Called("createTask", t)
                /\ last'.result = Ok
          /\ (Called("createTask", t) /\ last'.result = Ok)
             => /\ tasks'[t].creator = last'.caller
                /\ events'[Len(events')].who = last'.caller
          /\ SubmittersOf(tasks'[t]) # SubmittersOf(tasks[t])
             => /\ Called("submitModel", t)
                /\ last'.result = Ok
          /\ (Called("submitModel", t) /\ last'.result = Ok)
             => /\ SubmittersOf(tasks'[t]) =
                      Append(SubmittersOf(tasks[t]), last'.caller)
                /\ events'[Len(events')].who = last'.caller
      ]_vars

\* C23 witness: an account that is not the task's creator has just submitted
\* a model to it and is recorded as its submitter.
C23_Witness ==
    /\ last.op = "submitModel"
    /\ last.result = Ok
    /\ tasks[last.taskId].creator # last.caller
    /\ LET subs == tasks[last.taskId].submissions
       IN  subs[Len(subs)].submitter = last.caller

\* this step is the page's successful read of the contract
Fetched == fetchPc = "pending" /\ fetchPc' = "done"

\* the fraction shown is the ledger value a over 10000, and lies in [0,1]
\* when a lies in 0..10000
IsScaled(shown, a) ==
    /\ shown[2] > 0
    /\ shown[1] * 10000 = shown[2] * a
    /\ a \in 0..10000 => (0 <= shown[1] /\ shown[1] <= shown[2])

\* C24: when the page reads the contract, the final accuracy it keeps for
\* every task and the accuracy it keeps for every submission are the ledger
\* values divided by 10000: a ledger value in 0..10000 becomes a fraction in
\* [0,1], and both kinds of accuracy are on that one scale.
C24_AccuracyFixedPointConversion ==
    [][ Fetched
        => /\ Len(detailedSessions') = Len(getTasks)
           /\ \A i \in 1..Len(detailedSessions') :
                 LET shown == detailedSessions'[i]
                     task == tasks[shown.id]
                 IN  /\ IsScaled(shown.globalAccuracy, task.finalAccuracy)
                     /\ Len(shown.updates) = Len(task.submissions)
                     /\ \A k \in 1..Len(shown.updates) :
                           IsScaled(shown.updates[k].accuracy,
                                    task.submissions[k].accuracy)
      ]_allVars

\* C24 witness: the page has read a task whose final accuracy 8500 it keeps
\* as 17/20 and one of whose submissions has accuracy 10000, kept as 1.
C24_Witness ==
    /\ fetchPc = "done"
    /\ \E i \in 1..Len(detailedSessions) :
          /\ detailedSessions[i].globalAccuracy = <<17, 20>>
          /\ \E k \in 1..Len(detailedSessions[i].updates) :
                detailedSessions[i].updates[k].accuracy = <<1, 1>>

\* C25: after every successful submitFinalModel, whatever finalModelHash the
\* caller passed, the task's stored finalModelHash is not empty.
C25_SuccessfulFinalizeIsObservable ==
    [][ \A t \in TaskIds :
          (Called("submitFinalModel", t) /\ last'.result = Ok)
          => tasks'[t].finalModelHash # "" ]_vars

\* C26: submitFinalModel checks, in this order, that the task exists, that
\* the caller is its creator, that it has no final model yet: on a taskId
\* never created every caller gets "Task not found"; on an existing task
\* anyone but the creator gets the unauthorized error, also when the task is
\* already finalized; the creator of a finalized task gets the
\* already-finalized error.
C26_FinalizeErrorPrecedence ==
    [][ \A t \in TaskIds :
          Called("submitFinalModel", t)
          => /\ tasks[t].creator = ZeroAddress
                => last'.result = TaskNotFound
             /\ ( /\ tasks[t].creator # ZeroAddress
                  /\ last'.caller # tasks[t].creator )
                => last'.result = Unauthorized
             /\ ( /\ tasks[t].creator # ZeroAddress
                  /\ last'.caller = tasks[t].creator
                  /\ tasks[t].finalModelHash # "" )
                => last'.result = AlreadyFinalized
      ]_vars

\* C26 witness: an account that is not the creator has just called
\* submitFinalModel on a task that already has a final model, and got the
\* unauthorized error.
C26_Witness ==
    /\ last.op = "submitFinalModel"
    /\ last.result = Unauthorized
    /\ tasks[last.taskId].finalModelHash # ""
    /\ FinalizeSucceeded(last.taskId)

\* C27: when the page reads the contract it lists every task getTasks
\* returns, shows a task as Completed exactly when a submitFinalModel has
\* succeeded for it and as Active otherwise, and shows the same status for a
\* task in the list view and in the detail view.
C27_DashboardStatusAgreesWithLedger ==
    [][ Fetched
        => /\ Len(sessionList') = Len(getTasks)
           /\ Len(detailedSessions') = Len(getTasks)
           /\ \A i \in 1..Len(sessionList') :
                 /\ sessionList'[i].status =
                       IF FinalizeSucceeded(sessionList'[i].id)
                       THEN "Completed" ELSE "Active"
                 /\ detailedSessions'[i].id = sessionList'[i].id
                 /\ detailedSessions'[i].status = sessionList'[i].status
      ]_allVars

\* the text of the ledger accuracy a as a percentage: a / 100
PercentText(a) == NumberText(Quotient(a, 100))

\* C29: when the page reads the contract, the number it renders in front of
\* the percent sign is a / 100 both for a submission's ledger accuracy a in
\* the detail view and for a task's ledger final accuracy a (when the global
\* accuracy is rendered), so equal ledger values render as equal texts.
C29_AccuracyDisplayUsesOneScale ==
    [][ Fetched
        => \A i \in 1..Len(detailedSessions') :
              LET shown == detailedSessions'[i]
                  task == tasks[shown.id]
              IN  /\ GlobalAccuracyShown(shown)
                     => GlobalAccuracyText(shown) =
                           PercentText(task.finalAccuracy)
                  /\ \A k \in 1..Len(shown.updates) :
                        NodeAccuracyText(shown.updates[k]) =
                           PercentText(task.submissions[k].accuracy)
      ]_allVars

\* C28: no step, of a successful or of a failed call, decreases the
\* contract's balance; the balance changes only in a successful createTask,
\* which takes whatever amount the caller sends; a finalization and a
\* submission leave it as it is.
C28_ValueIsNeverReleased ==
    [][ /\ balance' >= balance
        /\ balance' - balance \in Amounts
        /\ balance' # balance
           => (last'.op = "createTask" /\ last'.result = Ok)
        /\ \A t \in TaskIds :
              (Called("createTask", t) /\ tasks[t].creator = ZeroAddress)
              => last'.result = Ok
      ]_allVars

\* C28 witness: one task was created with value and one without, and a
\* finalization has just succeeded with the value still in the contract.
C28_Witness ==
    /\ balance = 1
    /\ Len(taskIds) = 2
    /\ last.op = "submitFinalModel"
    /\ last.result = Ok

====
